---- MODULE Spec2Model ----
(***************************************************************************)
(* Model of the go-virtualbox command runner (src/vbcmd.go) and of the     *)
(* one operation built on it (src/import.go).                              *)
(*                                                                         *)
(* The state is the runner value the caller holds, the process-wide        *)
(* Verbose switch, the platform the package was built for, and a record    *)
(* of the last call: its inputs, what the process layer (os/exec) did and  *)
(* what was returned to the caller.  Every method of the runner has a      *)
(* value receiver, so a method body works on a copy of the caller's value; *)
(* the model keeps the callee's copy and the caller's value apart.         *)
(***************************************************************************)
EXTENDS Integers, Sequences, FiniteSets, TLC

VARIABLES runner, Verbose, GOOS, last

vars == <<runner, Verbose, GOOS, last>>

(***************************************************************************)
(* Bounds of the exploration.                                              *)
(***************************************************************************)
MaxArgs == 2

ArgTokens == {"list", "vms"}

ArgLists == UNION {[1..n -> ArgTokens] : n \in 0..MaxArgs}

\* Program names a runner may carry.  "doesnotexist_tool" is never on the
\* search path; "/usr/bin/VBoxControl" contains a path separator, so
\* exec.LookPath does not consult the search path for it.
Programs == {"VBoxManage", "doesnotexist_tool", "/usr/bin/VBoxControl"}

PathPrograms == {"/usr/bin/VBoxControl"}

Platforms == {"linux", "darwin", "windows"}

Modes == {"run", "runOut", "runOutErr"}

(***************************************************************************)
(* type command struct { program string; sudoer bool; sudo bool }          *)
(***************************************************************************)
command == [program : Programs, sudoer : BOOLEAN, sudo : BOOLEAN]

(***************************************************************************)
(* Error values.  A Go error is an interface value: a dynamic type and a   *)
(* value of that type.  dyn is the dynamic type, id identifies the value   *)
(* (the message of an errors.New value), Name and Err are the fields of    *)
(* *exec.Error (Err holds the id of the wrapped error), Stderr is the      *)
(* field of *exec.ExitError.                                               *)
(***************************************************************************)
nil == [dyn |-> "nil", id |-> "", Name |-> "", Err |-> "", Stderr |-> ""]

errorsNew(text) ==
    [dyn |-> "*errors.errorString", id |-> text, Name |-> "", Err |-> "", Stderr |-> ""]

ErrMachineExist == errorsNew("machine already exists")

ErrMachineNotExist == errorsNew("machine does not exist")

ErrCommandNotFound == errorsNew("command not found")

\* os/exec's ErrNotFound and io/fs's ErrNotExist, both errors.New values.
execErrNotFound == errorsNew("executable file not found in $PATH")

fsErrNotExist == errorsNew("file does not exist")

\* &exec.Error{Name: name, Err: err}
execError(name, err) ==
    [dyn |-> "*exec.Error", id |-> "", Name |-> name, Err |-> err.id, Stderr |-> ""]

\* &exec.ExitError{...}: the child ran and exited with a non-zero status.
exitError(code, stderr) ==
    [dyn |-> "*exec.ExitError", id |-> IF code = 1 THEN "exit status 1" ELSE "exit status 2",
     Name |-> "", Err |-> "", Stderr |-> stderr]

\* &os.PathError{Op: "fork/exec", ...}: the process could not be started.
pathError(name) ==
    [dyn |-> "*os.PathError", id |-> "fork/exec", Name |-> name, Err |-> "", Stderr |-> ""]

\* errors of the os/user lookups used by isSudoer
userCurrentError ==
    [dyn |-> "user.UnknownUserIdError", id |-> "user: unknown userid", Name |-> "",
     Err |-> "", Stderr |-> ""]

groupIdsError ==
    [dyn |-> "*errors.errorString", id |-> "user: list groups failed", Name |-> "",
     Err |-> "", Stderr |-> ""]

(***************************************************************************)
(* The process layer (os/exec), as far as the runner uses it.              *)
(*                                                                         *)
(* What the operating system does with one spawn is the input o:           *)
(*   kind   "lookfail"  the executable was not located,                    *)
(*          "startfail" it was located but fork/exec failed (I/O error),   *)
(*          "exited"    it ran and exited with status exit;                *)
(*   out, err  what the child wrote to standard output and standard error. *)
(***************************************************************************)
Exited(out, err, exit) == [kind |-> "exited", out |-> out, err |-> err, exit |-> exit]

ChildOutcomes ==
    {[kind |-> k, out |-> "", err |-> "", exit |-> 0] : k \in {"lookfail", "startfail"}}
    \cup {Exited("out", "warn", 0), Exited("out", "err", 1)}

\* The outcomes the operating system can produce for an executable name.
Possible(file) ==
    IF file = "doesnotexist_tool"
    THEN {o \in ChildOutcomes : o.kind = "lookfail"}
    ELSE ChildOutcomes

\* exec.LookPath's error for a file that was not located: a bare name is
\* searched on the path (ErrNotFound), a name with a separator is not.
lookPathError(file) ==
    IF file \in PathPrograms
    THEN execError(file, fsErrNotExist)
    ELSE execError(file, execErrNotFound)

\* exec.Command(name, arg...): Path, Args = name followed by arg, no streams.
execCommand(name, arg) ==
    [Path |-> name, Args |-> <<name>> \o arg, Stdout |-> "nil", Stderr |-> "nil"]

\* (*exec.Cmd).Run under outcome o: the error, what reached a buffer the
\* caller attached, and what was streamed to the parent's own console.
cmdRun(cmd, o) ==
    [err |-> CASE o.kind = "lookfail" -> lookPathError(cmd.Path)
               [] o.kind = "startfail" -> pathError(cmd.Path)
               [] o.kind = "exited" /\ o.exit # 0 -> exitError(o.exit, "")
               [] OTHER -> nil,
     stdout |-> IF cmd.Stdout = "buffer" THEN o.out ELSE "",
     stderr |-> IF cmd.Stderr = "buffer" THEN o.err ELSE "",
     console |-> <<IF cmd.Stdout = "os.Stdout" THEN o.out ELSE "",
                   IF cmd.Stderr = "os.Stderr" THEN o.err ELSE "">>]

\* (*exec.Cmd).Output: captures standard output; when the caller attached no
\* Stderr it also captures standard error into ExitError.Stderr.
cmdOutput(cmd, o) ==
    LET captureErr == cmd.Stderr = "nil"
        c == [cmd EXCEPT !.Stdout = "buffer",
                         !.Stderr = IF captureErr THEN "buffer" ELSE @]
        r == cmdRun(c, o)
    IN [err |-> IF r.err.dyn = "*exec.ExitError" /\ captureErr
                THEN [r.err EXCEPT !.Stderr = r.stderr]
                ELSE r.err,
        stdout |-> r.stdout,
        stderr |-> "",
        console |-> r.console]

(***************************************************************************)
(* The runner's methods.  Each operator takes the receiver as the caller   *)
(* holds it and yields, among other things, self: the caller's value once  *)
(* the call has returned.                                                  *)
(***************************************************************************)

\* "func (vbcmd command) m(...)": the body works on the copy local; the value
\* the caller holds is the one it held before the call.
valueReceiver(caller, local) == caller

\* The option sudo(b) applied to the *command it is handed.
sudo(b, vbcmd) == [vbcmd EXCEPT !.sudo = b]

\* The loop of setOpts: every option is handed the address of the same copy.
\* An option list is the list of the booleans b of its sudo(b) options.
RECURSIVE applyOpts(_, _)
applyOpts(vbcmd, opts) ==
    IF opts = <<>> THEN vbcmd
    ELSE applyOpts(sudo(Head(opts), vbcmd), Tail(opts))

setOpts(vbcmd, opts) == valueReceiver(vbcmd, applyOpts(vbcmd, opts))

path(vbcmd) == vbcmd.program

\* prepare without the platform test: elevation also applied on windows.
prepare_noPlatformCheck(vbcmd, args, verbose, goos) ==
    LET elevate == vbcmd.sudoer /\ vbcmd.sudo
        program == IF elevate THEN "sudo" ELSE vbcmd.program
        argv == (IF elevate THEN <<vbcmd.program>> ELSE <<>>) \o args
    IN [cmd |-> execCommand(program, argv),
        logged |-> IF verbose THEN <<<<program, argv>>>> ELSE <<>>]

\* prepare: the *exec.Cmd to run and the line logged when Verbose is on.
prepare(vbcmd, args, verbose, goos) ==
    LET elevate == vbcmd.sudoer /\ vbcmd.sudo /\ goos # "windows"
        program == IF elevate THEN "sudo" ELSE vbcmd.program
        argv == (IF elevate THEN <<vbcmd.program>> ELSE <<>>) \o args
    IN [cmd |-> execCommand(program, argv),
        logged |-> IF verbose THEN <<<<program, argv>>>> ELSE <<>>]

\* The classification with the type assertion alone: any *exec.Error counts
\* as "not found".
isNotFound_anyExecError(err) == err.dyn = "*exec.Error"

\* "ee, ok := err.(*exec.Error); ok && ee == exec.ErrNotFound": the type
\* assertion, then the comparison of the asserted pointer, as an interface
\* value, with the interface value exec.ErrNotFound.
isNotFound(err) == err.dyn = "*exec.Error" /\ err = execErrNotFound

classify(err) ==
    IF err # nil /\ isNotFound(err) THEN ErrCommandNotFound ELSE err

\* run with a pointer receiver whose prepare step stores the program it
\* executes in the receiver: the caller's value is written through.
run_pointerReceiver(vbcmd, args, verbose, goos, o) ==
    LET p == prepare(vbcmd, args, verbose, goos)
        cmd == IF verbose
               THEN [p.cmd EXCEPT !.Stdout = "os.Stdout", !.Stderr = "os.Stderr"]
               ELSE p.cmd
        r == cmdRun(cmd, o)
    IN [self |-> [vbcmd EXCEPT !.program = p.cmd.Path, !.sudo = FALSE],
        cmd |-> cmd, proc |-> r, logged |-> p.logged, spawns |-> 1,
        calls |-> <<[mode |-> "run", args |-> args]>>,
        ret |-> [out |-> "", errout |-> "", err |-> classify(r.err)]]

run(vbcmd, args, verbose, goos, o) ==
    LET p == prepare(vbcmd, args, verbose, goos)
        cmd == IF verbose
               THEN [p.cmd EXCEPT !.Stdout = "os.Stdout", !.Stderr = "os.Stderr"]
               ELSE p.cmd
        r == cmdRun(cmd, o)
    IN [self |-> valueReceiver(vbcmd, setOpts(vbcmd, <<FALSE>>)),
        cmd |-> cmd, proc |-> r, logged |-> p.logged, spawns |-> 1,
        calls |-> <<[mode |-> "run", args |-> args]>>,
        ret |-> [out |-> "", errout |-> "", err |-> classify(r.err)]]

\* runOut that, like run, hands the child the parent's standard output when
\* Verbose is on, so nothing is captured.
runOut_verboseStreamsStdout(vbcmd, args, verbose, goos, o) ==
    LET p == prepare(vbcmd, args, verbose, goos)
        cmd == IF verbose
               THEN [p.cmd EXCEPT !.Stdout = "os.Stdout", !.Stderr = "os.Stderr"]
               ELSE p.cmd
        r == IF verbose THEN cmdRun(cmd, o) ELSE cmdOutput(cmd, o)
    IN [self |-> valueReceiver(vbcmd, setOpts(vbcmd, <<FALSE>>)),
        cmd |-> cmd, proc |-> r, logged |-> p.logged, spawns |-> 1,
        calls |-> <<[mode |-> "runOut", args |-> args]>>,
        ret |-> [out |-> r.stdout, errout |-> "", err |-> classify(r.err)]]

runOut(vbcmd, args, verbose, goos, o) ==
    LET p == prepare(vbcmd, args, verbose, goos)
        cmd == IF verbose THEN [p.cmd EXCEPT !.Stderr = "os.Stderr"] ELSE p.cmd
        r == cmdOutput(cmd, o)
    IN [self |-> valueReceiver(vbcmd, setOpts(vbcmd, <<FALSE>>)),
        cmd |-> cmd, proc |-> r, logged |-> p.logged, spawns |-> 1,
        calls |-> <<[mode |-> "runOut", args |-> args]>>,
        ret |-> [out |-> r.stdout, errout |-> "", err |-> classify(r.err)]]

\* runOutErr that attaches a buffer to standard output only.
runOutErr_stderrNotCaptured(vbcmd, args, verbose, goos, o) ==
    LET p == prepare(vbcmd, args, verbose, goos)
        cmd == [p.cmd EXCEPT !.Stdout = "buffer"]
        r == cmdRun(cmd, o)
    IN [self |-> valueReceiver(vbcmd, setOpts(vbcmd, <<FALSE>>)),
        cmd |-> cmd, proc |-> r, logged |-> p.logged, spawns |-> 1,
        calls |-> <<[mode |-> "runOutErr", args |-> args]>>,
        ret |-> [out |-> r.stdout, errout |-> r.stderr, err |-> classify(r.err)]]

runOutErr(vbcmd, args, verbose, goos, o) ==
    LET p == prepare(vbcmd, args, verbose, goos)
        cmd == [p.cmd EXCEPT !.Stdout = "buffer", !.Stderr = "buffer"]
        r == cmdRun(cmd, o)
    IN [self |-> valueReceiver(vbcmd, setOpts(vbcmd, <<FALSE>>)),
        cmd |-> cmd, proc |-> r, logged |-> p.logged, spawns |-> 1,
        calls |-> <<[mode |-> "runOutErr", args |-> args]>>,
        ret |-> [out |-> r.stdout, errout |-> r.stderr, err |-> classify(r.err)]]

\* The Command interface's three execution methods, by name.
invoke(mode, vbcmd, args, verbose, goos, o) ==
    CASE mode = "run" -> run(vbcmd, args, verbose, goos, o)
      [] mode = "runOut" -> runOut(vbcmd, args, verbose, goos, o)
      [] mode = "runOutErr" -> runOutErr(vbcmd, args, verbose, goos, o)

(***************************************************************************)
(* isSudoer.  curErr is the error of user.Current(); grpErr and groupIDs   *)
(* are the results of me.GroupIds(), which is called on every platform     *)
(* once user.Current() succeeded.                                          *)
(***************************************************************************)
\* isSudoer that drops the error of GroupIds on linux as well.
isSudoer_ignoresGroupError(curErr, grpErr, groupIDs, goos) ==
    IF curErr # nil THEN [ok |-> FALSE, err |-> curErr]
    ELSE IF goos = "linux" /\ grpErr = nil
            /\ \E i \in 1..Len(groupIDs) : groupIDs[i] = "sudo"
         THEN [ok |-> TRUE, err |-> nil]
         ELSE [ok |-> FALSE, err |-> nil]

isSudoer(curErr, grpErr, groupIDs, goos) ==
    IF curErr # nil THEN [ok |-> FALSE, err |-> curErr]
    ELSE IF goos = "linux"
         THEN IF grpErr # nil THEN [ok |-> FALSE, err |-> grpErr]
              ELSE IF \E i \in 1..Len(groupIDs) : groupIDs[i] = "sudo"
                   THEN [ok |-> TRUE, err |-> nil]
                   ELSE [ok |-> FALSE, err |-> nil]
         ELSE [ok |-> FALSE, err |-> nil]

(***************************************************************************)
(* ImportOVF (src/import.go).                                              *)
(***************************************************************************)
Digit == <<"0", "1", "2", "3", "4", "5", "6", "7", "8", "9">>

RECURSIVE formatUint(_)
formatUint(n) ==
    IF n < 10 THEN Digit[n + 1]
    ELSE formatUint(n \div 10) \o Digit[(n % 10) + 1]

\* strconv.Itoa: the decimal text of i, with a leading "-" when negative.
Itoa(i) == IF i < 0 THEN "-" \o formatUint(0 - i) ELSE formatUint(i)

\* The host-side manage runner: the runner value the package holds.
Manage == runner

\* ImportOVF with the values of --vsys and --vmname exchanged.
ImportOVF_valuesSwapped(ovf, vsys, name, manage, verbose, goos, o) ==
    LET args == <<"import", ovf, "--vsys", name, "--vmname", Itoa(vsys)>>
        r == run(manage, args, verbose, goos, o)
    IN [r EXCEPT !.ret = [out |-> "", errout |-> "", err |-> r.ret.err]]

ImportOVF(ovf, vsys, name, manage, verbose, goos, o) ==
    LET args == <<"import", ovf, "--vsys", Itoa(vsys), "--vmname", name>>
        r == run(manage, args, verbose, goos, o)
    IN [r EXCEPT !.ret = [out |-> "", errout |-> "", err |-> r.ret.err]]

(***************************************************************************)
(* State and actions.                                                      *)
(***************************************************************************)
MaxOpts == 1

OptLists == UNION {[1..n -> BOOLEAN] : n \in 0..MaxOpts}

OvfPaths == {"a.ova"}

VsysValues == {-7, 0, 12}

VmNames == {"vm1"}

GroupIdLists == {<<>>, <<"1000">>, <<"1000", "27">>, <<"1000", "sudo">>}

NoOutcome == [kind |-> "none", out |-> "", err |-> "", exit |-> 0]

NoCmd == [Path |-> "", Args |-> <<>>, Stdout |-> "nil", Stderr |-> "nil"]

NoProc == [err |-> nil, stdout |-> "", stderr |-> "", console |-> <<"", "">>]

NoRet == [out |-> "", errout |-> "", err |-> nil]

\* The record of "no call yet"; every action fills in the fields it uses
\* (verbose: the value of the switch the operation ran under, or set).
NoCall ==
    [op |-> "none", before |-> [program |-> "", sudoer |-> FALSE, sudo |-> FALSE],
     opts |-> <<>>, args |-> <<>>, verbose |-> FALSE, outcome |-> NoOutcome,
     cmd |-> NoCmd, proc |-> NoProc, ret |-> NoRet, logged |-> <<>>, spawns |-> 0,
     calls |-> <<>>, curErr |-> nil, grpErr |-> nil, groupIDs |-> <<>>,
     sudoerOk |-> FALSE, ovf |-> "", vsys |-> 0, name |-> ""]

\* The runner is any value of the command type: its constructor is not part
\* of the sources, and code of the package can build any such value.
Init ==
    /\ runner \in command
    /\ Verbose = FALSE
    /\ GOOS \in Platforms
    /\ last = NoCall

\* The embedding application flips the process-wide switch.
SetVerbose ==
    /\ Verbose' = ~Verbose
    /\ last' = [NoCall EXCEPT !.op = "SetVerbose", !.before = runner,
                              !.verbose = Verbose']
    /\ UNCHANGED <<runner, GOOS>>

\* runner.setOpts(sudo(b1), ..., sudo(bn))
SetOpts ==
    \E opts \in OptLists :
        /\ runner' = setOpts(runner, opts)
        /\ last' = [NoCall EXCEPT !.op = "setOpts", !.before = runner, !.opts = opts]
        /\ UNCHANGED <<Verbose, GOOS>>

\* runner.run(args...), runner.runOut(args...), runner.runOutErr(args...)
Invoke(mode) ==
    \E args \in ArgLists, o \in ChildOutcomes :
        LET r == invoke(mode, runner, args, Verbose, GOOS, o)
        IN /\ o \in Possible(prepare(runner, args, Verbose, GOOS).cmd.Path)
           /\ runner' = r.self
           /\ last' = [NoCall EXCEPT !.op = mode, !.before = runner, !.args = args,
                                     !.verbose = Verbose, !.outcome = o, !.cmd = r.cmd,
                                     !.proc = r.proc, !.ret = r.ret, !.logged = r.logged,
                                     !.spawns = r.spawns,
                                     !.calls = r.calls]
           /\ UNCHANGED <<Verbose, GOOS>>

Run == Invoke("run")

RunOut == Invoke("runOut")

RunOutErr == Invoke("runOutErr")

\* isSudoer(): GroupIds is only called once user.Current succeeded.
IsSudoer ==
    \E curErr \in {nil, userCurrentError}, grpErr \in {nil, groupIdsError},
       groupIDs \in GroupIdLists :
        LET r == isSudoer(curErr, grpErr, groupIDs, GOOS)
        IN /\ (curErr # nil \/ grpErr # nil) => groupIDs = <<>>
           /\ curErr # nil => grpErr = nil
           /\ last' = [NoCall EXCEPT !.op = "isSudoer", !.before = runner,
                                     !.curErr = curErr, !.grpErr = grpErr,
                                     !.groupIDs = groupIDs, !.sudoerOk = r.ok,
                                     !.ret = [NoRet EXCEPT !.err = r.err]]
           /\ UNCHANGED <<runner, Verbose, GOOS>>

\* ImportOVF(ovf, vsys, name)
CallImportOVF ==
    \E ovf \in OvfPaths, vsys \in VsysValues, name \in VmNames, o \in ChildOutcomes :
        LET r == ImportOVF(ovf, vsys, name, Manage, Verbose, GOOS, o)
        IN /\ o \in Possible(r.cmd.Path)
           /\ runner' = r.self
           /\ last' = [NoCall EXCEPT !.op = "ImportOVF", !.before = runner,
                                     !.verbose = Verbose,
                                     !.outcome = o, !.cmd = r.cmd, !.proc = r.proc,
                                     !.ret = r.ret, !.logged = r.logged,
                                     !.spawns = r.spawns, !.calls = r.calls,
                                     !.ovf = ovf, !.vsys = vsys, !.name = name]
           /\ UNCHANGED <<Verbose, GOOS>>

Next ==
    \/ SetVerbose
    \/ SetOpts
    \/ Run
    \/ RunOut
    \/ RunOutErr
    \/ IsSudoer
    \/ CallImportOVF

Spec == Init /\ [][Next]_vars

(***************************************************************************)
(* Properties.                                                             *)
(***************************************************************************)

\* The *exec.Error the process layer yields when a bare name is not on the
\* search path: &exec.Error{Name: file, Err: exec.ErrNotFound}.
NotFoundError(file) == execError(file, execErrNotFound)

Sentinels == {ErrCommandNotFound, ErrMachineExist, ErrMachineNotExist}

Invoked == last.op \in Modes

\* The elevation condition of a call, from the receiver it was made on.
Elevated == last.before.sudo /\ last.before.sudoer /\ GOOS # "windows"

\* C1: in each of the three modes, when starting the process fails because
\* the executable is absent from the search path, the caller receives the
\* sentinel ErrCommandNotFound and not the process layer's own error.
C1_NotFoundYieldsSentinel ==
    (Invoked /\ last.proc.err = NotFoundError(last.cmd.Path))
        => last.ret.err = ErrCommandNotFound

\* C2: once run, runOut or runOutErr has returned, the elevation-requested
\* flag of the runner the caller holds is false.
C2_FlagFalseAfterCall == Invoked => runner.sudo = FALSE

\* C3: after setOpts(sudo(true)) on a runner of a permitted user off windows,
\* the next invocation executes "sudo", the program, then the arguments; and
\* an invocation that directly follows an invocation runs the program
\* directly.
C3_OptionMarksNextCall ==
    [][/\ (/\ last.op = "setOpts"
           /\ last.opts # <<>>
           /\ last.opts[Len(last.opts)] = TRUE
           /\ runner.sudoer
           /\ GOOS # "windows"
           /\ last'.op \in Modes)
          => last'.cmd.Args = <<"sudo", runner.program>> \o last'.args
       /\ (last.op \in Modes /\ last'.op \in Modes)
          => last'.cmd.Args = <<runner.program>> \o last'.args]_vars

\* C4: the executed vector is "sudo", program, A exactly when the flag is
\* set, the user is permitted and the platform is not windows, and program, A
\* otherwise; A is its tail, complete and in order, in both forms.
C4_ExecutedVector ==
    Invoked =>
        /\ last.cmd.Args = (IF Elevated THEN <<"sudo", last.before.program>>
                                        ELSE <<last.before.program>>) \o last.args
        /\ last.cmd.Path = last.cmd.Args[1]
        /\ SubSeq(last.cmd.Args, Len(last.cmd.Args) - Len(last.args) + 1,
                  Len(last.cmd.Args)) = last.args

C4_Witness ==
    /\ Invoked
    /\ Elevated
    /\ last.args = <<"vms", "list">>
    /\ last.cmd.Args = <<"sudo", last.before.program, "vms", "list">>

\* C5: runOutErr returns what the child wrote to standard output and to
\* standard error as two values in every outcome; when the child wrote to
\* standard error and exited non-zero, the returned standard-error text is
\* non-empty and the returned error is non-nil.
C5_BothStreamsReturned ==
    last.op = "runOutErr" =>
        /\ last.ret.out = last.outcome.out
        /\ last.ret.errout = last.outcome.err
        /\ (last.outcome.kind = "exited" /\ last.outcome.err # ""
              /\ last.outcome.exit # 0)
           => (last.ret.errout # "" /\ last.ret.err # nil)

C5_Witness ==
    /\ last.op = "runOutErr"
    /\ last.outcome = Exited("out", "err", 1)
    /\ last.ret = [out |-> "out", errout |-> "err", err |-> exitError(1, "")]

\* C6: when the child succeeds, the values returned with Verbose on are those
\* returned with Verbose off; and Verbose never changes the executed
\* program/argument vector.
C6_VerboseKeepsResult ==
    Invoked =>
        LET other == invoke(last.op, last.before, last.args, ~last.verbose, GOOS,
                            last.outcome)
        IN /\ other.cmd.Path = last.cmd.Path
           /\ other.cmd.Args = last.cmd.Args
           /\ (last.outcome.kind = "exited" /\ last.outcome.exit = 0)
              => other.ret = last.ret

C6_Witness ==
    /\ last.op = "runOut"
    /\ last.verbose
    /\ last.outcome = Exited("out", "warn", 0)
    /\ last.ret = [out |-> "out", errout |-> "", err |-> nil]
    /\ last.logged # <<>>
    /\ last.proc.console = <<"", "warn">>

\* C7: a failure other than executable-not-found reaches the caller as the
\* very error the process layer produced: not a sentinel, not success, after
\* a single spawn; runOut returns the captured standard output with it.
C7_OtherFailuresPassThrough ==
    (Invoked /\ last.proc.err # nil /\ last.proc.err # NotFoundError(last.cmd.Path))
        => /\ last.ret.err = last.proc.err
           /\ last.ret.err \notin Sentinels \cup {nil}
           /\ last.spawns = 1
           /\ last.op = "runOut" => last.ret.out = last.outcome.out

C7_Witness ==
    /\ last.op = "runOut"
    /\ last.outcome = Exited("out", "err", 1)
    /\ last.ret.out = "out"
    /\ last.ret.err.dyn = "*exec.ExitError"

\* C8, as stated: whenever the lookup of the current user or of its group
\* memberships fails, isSudoer returns that error, on every platform.
C8_LookupFailurePropagates ==
    last.op = "isSudoer" =>
        /\ last.curErr # nil => last.ret.err = last.curErr
        /\ last.grpErr # nil => last.ret.err = last.grpErr

\* C8, amended: isSudoer returns the error of the current-user lookup on
\* every platform and the error of the group lookup on linux; on any other
\* platform a failed group lookup yields (false, nil).
C8_LookupFailurePropagatesOnLinux ==
    last.op = "isSudoer" =>
        /\ last.curErr # nil => (last.ret.err = last.curErr /\ ~last.sudoerOk)
        /\ (last.grpErr # nil /\ GOOS = "linux")
           => (last.ret.err = last.grpErr /\ ~last.sudoerOk)
        /\ (last.grpErr # nil /\ GOOS # "linux")
           => (last.ret.err = nil /\ ~last.sudoerOk)

C8_Witness ==
    /\ last.op = "isSudoer"
    /\ GOOS = "darwin"
    /\ last.grpErr = groupIdsError
    /\ last.ret.err = nil
    /\ ~last.sudoerOk

\* The decimal texts of the index values explored.
DecimalText == (-7 :> "-7") @@ (0 :> "0") @@ (12 :> "12")

\* C9: ImportOVF makes exactly one invocation, in the no-output mode, with
\* the arguments import, path, --vsys, decimal text of vsys, --vmname, name in
\* that order, and returns the error that invocation returned, no output.
C9_ImportInvocation ==
    last.op = "ImportOVF" =>
        LET args == <<"import", last.ovf, "--vsys", DecimalText[last.vsys],
                      "--vmname", last.name>>
        IN /\ last.calls = <<[mode |-> "run", args |-> args]>>
           /\ last.spawns = 1
           /\ last.ret.err = run(last.before, args, last.verbose, GOOS,
                                 last.outcome).ret.err
           /\ last.ret.out = "" /\ last.ret.errout = ""

C9_Witness ==
    /\ last.op = "ImportOVF"
    /\ last.vsys = -7
    /\ last.calls[1].args = <<"import", "a.ova", "--vsys", "-7", "--vmname", "vm1">>
    /\ last.ret.err.dyn = "*exec.ExitError"

\* C10: no call changes the program name or the permitted-to-elevate flag of
\* the runner the caller holds, and path() is the same before and after.
C10_ProgramAndSudoerFrame ==
    [][/\ runner'.program = runner.program
       /\ runner'.sudoer = runner.sudoer
       /\ path(runner') = path(runner)]_vars

C10_Witness ==
    /\ last.op = "run"
    /\ Elevated
    /\ last.cmd.Path = "sudo"
    /\ runner.program = last.before.program
    /\ runner.sudoer

====
